---- MODULE Spec2Model ----
(***************************************************************************)
(* Wi-Fi control server of the PiCar-X (src/wifi_server_reactor.py): the   *)
(* selector loop of main, the per-connection framing of service, the       *)
(* dispatcher apply_cmd, the telemetry push and the teardown close_conn.   *)
(*                                                                         *)
(* Time is in milliseconds.  Distances are in centimetres (the code rounds *)
(* metres to two decimals), speeds in centimetres per second.  Text is a   *)
(* sequence of one-character strings; a byte stream is a sequence of       *)
(* bytes, the ASCII ones written as their character.  The temperature      *)
(* sample of the telemetry record is a host sensor reading and is left out.*)
(* The actuator px is attached (with px = None every call is a no-op).     *)
(***************************************************************************)
EXTENDS Integers, Sequences, FiniteSets, TLC

VARIABLES now, pc, ready, cur, pushTodo, lsock_registered, registered,
          backlog, net, script, rcvq,
          buf_in, last_push, closed,
          telem, last_telem_time, px,
          log, rx, last_cmd_time, dir_hist, faults,
          ble_now, drive, last_ctrl_ts, stop_evt, ble_px,
          wpc, msg, w_branch, fpc, f_branch,
          w_expired, w_mode0, w_issued, writes

\* The state of the Wi-Fi server, the state of the BLE server
\* (src/pi_ble_server/picarx_ble.py), and both.
rvars == <<now, pc, ready, cur, pushTodo, lsock_registered, registered,
           backlog, net, script, rcvq, buf_in, last_push, closed,
           telem, last_telem_time, px, log, rx, last_cmd_time,
           dir_hist, faults>>
bvars == <<ble_now, drive, last_ctrl_ts, stop_evt, ble_px, wpc, msg,
           w_branch, fpc, f_branch, w_expired, w_mode0, w_issued, writes>>
vars == <<rvars, bvars>>

\* now               time.time()
\* pc, ready, cur, pushTodo
\*                   where main is: waiting in select, going through the
\*                   ready keys, inside the framing loop of service on cur,
\*                   going through the telemetry loop, or past finally
\* lsock_registered, registered
\*                   the selector's map
\* backlog, net, script, rcvq
\*                   the clients and the sockets: pending connections, each
\*                   connection's state, what each client has yet to write,
\*                   the bytes waiting to be read
\* buf_in, last_push, closed
\*                   the fields of each ConnState
\* telem, last_telem_time, px
\*                   _telem, _last_telem_time and the motors and servo
\* log               what was printed, written and called for each
\*                   connection (and for main), in order
\* rx                the bytes read from each connection so far
\* last_cmd_time     when a recognized command was last dispatched
\* dir_hist          the distinct values _telem["direction"] took, in order
\* faults            the failures injected so far
\*
\* ble_now           time.time() in the BLE server
\* drive, last_ctrl_ts, stop_evt, ble_px
\*                   drive, _last_ctrl_ts, stop_evt and the car (px) of
\*                   picarx_ble.py
\* wpc, msg, w_branch
\*                   where the thread running on_ctrl_write is, the
\*                   message it parsed, the branch its apply_drive took
\* fpc, f_branch     the same for the thread running failsafe_loop
\* w_expired, w_mode0
\*                   whether the failsafe window had expired, and what
\*                   drive["mode"] was, when the write being handled arrived
\* w_issued          the motion on_ctrl_write's apply_drive gave the car
\* writes            the control writes so far

\* ------------------------------------------------------------- constants

CRUISE_SPEED == 80
DIR_MAX_ANGLE == 22
\* _telem["speed_mps"] = 0.55, in cm/s
NOMINAL_SPEED == 55
\* sel.select(timeout=0.1), in ms
HEARTBEAT_MS == 100
\* push_telem_if_due(key.data, hz=3.0)
TELEM_HZ == 3
\* the failsafe threshold of one second, in ms
FAILSAFE_MS == 1000
\* int(30 * steer) of apply_drive in picarx_ble.py
SERVO_MAX == 30
\* the "battery" entry of _telem
BATTERY == 80
\* time.time() when the module is loaded, in ms
StartTime == 1000

\* The clients that may connect, and the listening socket's selector key.
Clients == {"A", "B"}
LSOCK == "lsock"

\* Heartbeats of idle waiting the model follows.
MaxTicks == 5
\* The same with two clients connected, counted from StartTime.
DuoTicks == 6
\* The same in the runs that follow one second of silence.
WatchTicks == 12
\* Failures the environment injects in one run: an actuator call or a
\* sendall that raises, a select that reports a socket with nothing to read.
MaxFaults == 1
\* Steps of time the model follows in the BLE server, and the control
\* writes of one run.
MaxBleTicks == 4
MaxWrites == 2

\* ------------------------------------------------------------------ text

CR == "\r"
LF == "\n"
SP == " "
TAB == "\t"
\* The two bytes of the UTF-8 encoding of U+00E9, and the character itself.
ByteC3 == "0xC3"
ByteA9 == "0xA9"
EAcute == "U+00E9"

\* bytes.decode("utf-8", errors="ignore") of one chunk: a lead byte with its
\* continuation byte is one character; a lead byte with no continuation
\* byte after it (also at the end of the chunk) and a continuation byte with
\* no lead byte before it are dropped.
RECURSIVE decode(_)
decode(b) ==
    IF b = <<>> THEN <<>>
    ELSE IF Head(b) = ByteC3
         THEN IF Len(b) >= 2 /\ b[2] = ByteA9
              THEN <<EAcute>> \o decode(SubSeq(b, 3, Len(b)))
              ELSE decode(Tail(b))
    ELSE IF Head(b) = ByteA9 THEN decode(Tail(b))
    ELSE <<Head(b)>> \o decode(Tail(b))

\* s.replace("\r\n", "\n")
RECURSIVE replace_crlf(_)
replace_crlf(s) ==
    IF s = <<>> THEN <<>>
    ELSE IF Len(s) >= 2 /\ s[1] = CR /\ s[2] = LF
         THEN <<LF>> \o replace_crlf(SubSeq(s, 3, Len(s)))
    ELSE <<Head(s)>> \o replace_crlf(Tail(s))

\* s.find("\n"), 1-based; 0 where the code has -1.
find_nl(s) ==
    IF \E i \in 1..Len(s) : s[i] = LF
    THEN CHOOSE i \in 1..Len(s) : s[i] = LF /\ \A j \in 1..(i - 1) : s[j] # LF
    ELSE 0

Whitespace == {SP, TAB, CR, LF}

\* str.strip()
strip(s) ==
    LET keep == {i \in 1..Len(s) : s[i] \notin Whitespace}
    IN  IF keep = {} THEN <<>>
        ELSE LET lo == CHOOSE i \in keep : \A j \in keep : i <= j
                 hi == CHOOSE i \in keep : \A j \in keep : j <= i
             IN  SubSeq(s, lo, hi)

lower_char(ch) ==
    CASE ch = "F" -> "f" [] ch = "O" -> "o" [] ch = "R" -> "r"
      [] ch = "W" -> "w" [] ch = "A" -> "a" [] ch = "D" -> "d"
      [] ch = "S" -> "s" [] ch = "T" -> "t" [] ch = "P" -> "p"
      [] ch = "E" -> "e" [] ch = "B" -> "b" [] ch = "C" -> "c"
      [] ch = "K" -> "k" [] ch = "L" -> "l" [] ch = "N" -> "n"
      [] ch = "G" -> "g" [] ch = "H" -> "h" [] ch = "I" -> "i"
      [] ch = "M" -> "m"
      [] OTHER -> ch

\* str.lower()
lower(s) == [i \in 1..Len(s) |-> lower_char(s[i])]

T_forward == <<"f", "o", "r", "w", "a", "r", "d">>
T_back == <<"b", "a", "c", "k">>
T_stop == <<"s", "t", "o", "p">>
T_left == <<"l", "e", "f", "t">>
T_right == <<"r", "i", "g", "h", "t">>
T_center == <<"c", "e", "n", "t", "e", "r">>
T_resetodo == <<"r", "e", "s", "e", "t", "o", "d", "o">>
\* The name the specification gives the odometer command; apply_cmd has no
\* branch for it.
T_reset_odometer ==
    <<"r", "e", "s", "e", "t", "-", "o", "d", "o", "m", "e", "t", "e", "r">>
T_bogus == <<"h", "o", "n", "k">>

\* The tokens apply_cmd has a branch for.
Recognized ==
    {T_forward, T_back, T_stop, T_left, T_right, T_center, T_resetodo}

\* --------------------------------------------------------- hardware layer

\* What a call of the actuator library does: it returns, or it raises.
HwOutcomes == {"ok", "raises"}

\* set_motion: forward and back drive at the cruise speed, anything else
\* stops.  A call that raises leaves the motors as they were.
set_motion(p, motion, hw) ==
    IF hw = "raises" THEN p
    ELSE IF motion = "forward"
         THEN [p EXCEPT !.motion = "forward", !.power = CRUISE_SPEED]
    ELSE IF motion = "back"
         THEN [p EXCEPT !.motion = "back", !.power = CRUISE_SPEED]
    ELSE [p EXCEPT !.motion = "stop", !.power = 0]

\* set_steer: the steering servo angle; an unknown direction is ignored.
set_steer(p, direction, hw) ==
    IF hw = "raises" THEN p
    ELSE IF direction = "left" THEN [p EXCEPT !.angle = 0 - DIR_MAX_ANGLE]
    ELSE IF direction = "right" THEN [p EXCEPT !.angle = DIR_MAX_ANGLE]
    ELSE IF direction = "center" THEN [p EXCEPT !.angle = 0]
    ELSE p

\* How a call of hw_safe_stop goes: both calls return, set_motion raises
\* (set_steer is then not called), or set_steer raises.  hw_safe_stop
\* swallows the exception.
StopOutcomes == {"ok", "motion_raises", "steer_raises"}

\* The failures an outcome stands for.
Cost(o) == IF o = "ok" THEN 0 ELSE 1

hw_safe_stop(p, f) ==
    IF f = "motion_raises" THEN p
    ELSE IF f = "steer_raises" THEN set_motion(p, "stop", "ok")
    ELSE set_steer(set_motion(p, "stop", "ok"), "center", "ok")

\* -------------------------------------------------------------- telemetry

\* round(distance_m + speed * dt, 2), in cm with dt in ms.
round_cm(dist_cm, speed_cms, dt_ms) ==
    (dist_cm * 1000 + speed_cms * dt_ms + 500) \div 1000

\* telemetry_tick: the odometer estimate; returns the record it serialises
\* and the new _last_telem_time.
telemetry_tick(t, ltt, time) ==
    [telem |-> [t EXCEPT !.distance_m =
                    round_cm(t.distance_m, t.speed_mps, time - ltt)],
     last_telem_time |-> time]

\* ------------------------------------------------------------- dispatcher

\* A motion branch of apply_cmd: set_motion(name), then the three telemetry
\* entries.  An exception of the actuator call leaves apply_cmd before the
\* telemetry is touched.
motion_branch(cmd, t, p, hw, name, speed) ==
    IF hw = "raises"
    THEN [telem |-> t, px |-> p, raised |-> TRUE,
          did |-> <<<<"cmd", cmd>>, <<"raise", "set_motion">>>>]
    ELSE [telem |-> [t EXCEPT !.direction = name, !.moving = name,
                              !.speed_mps = speed],
          px |-> set_motion(p, name, hw), raised |-> FALSE,
          did |-> <<<<"cmd", cmd>>, <<"set_motion", name>>>>]

\* A steering branch of apply_cmd: set_steer(name), then the steer entry.
steer_branch(cmd, t, p, hw, name) ==
    IF hw = "raises"
    THEN [telem |-> t, px |-> p, raised |-> TRUE,
          did |-> <<<<"cmd", cmd>>, <<"raise", "set_steer">>>>]
    ELSE [telem |-> [t EXCEPT !.steer = name],
          px |-> set_steer(p, name, hw), raised |-> FALSE,
          did |-> <<<<"cmd", cmd>>, <<"set_steer", name>>>>]

\* A resetodo branch that would also clear the speed: C7 tells it apart.
reset_branch_clears_speed(cmd, t, p) ==
    [telem |-> [t EXCEPT !.distance_m = 0, !.speed_mps = 0], px |-> p,
     raised |-> FALSE, did |-> <<<<"cmd", cmd>>>>]

\* The resetodo branch of apply_cmd.
reset_branch(cmd, t, p) ==
    [telem |-> [t EXCEPT !.distance_m = 0], px |-> p, raised |-> FALSE,
     did |-> <<<<"cmd", cmd>>>>]

\* An else branch that would stop the car on an unknown command: C4 tells
\* it apart.
unknown_branch_stops(cmd, t, p) ==
    motion_branch(cmd, t, p, "ok", "stop", 0)

\* The else branch of apply_cmd: the [WARN] line and nothing else.
unknown_branch(cmd, t, p) ==
    [telem |-> t, px |-> p, raised |-> FALSE,
     did |-> <<<<"cmd", cmd>>, <<"warn", lower(strip(cmd))>>>>]

\* apply_cmd(cmd) on telemetry t and actuator p, the actuator call going as
\* hw says.  Returns the telemetry and the actuator after it, what it did
\* (the [CMD] line, the actuator call or the exception it raised, the
\* [WARN] line) and whether an exception left apply_cmd.
apply_cmd(cmd, t, p, hw) ==
    LET c == lower(strip(cmd))
    IN  IF c = T_forward
        THEN motion_branch(cmd, t, p, hw, "forward", NOMINAL_SPEED)
        ELSE IF c = T_back
        THEN motion_branch(cmd, t, p, hw, "back", NOMINAL_SPEED)
        ELSE IF c = T_stop THEN motion_branch(cmd, t, p, hw, "stop", 0)
        ELSE IF c = T_left THEN steer_branch(cmd, t, p, hw, "left")
        ELSE IF c = T_right THEN steer_branch(cmd, t, p, hw, "right")
        ELSE IF c = T_center THEN steer_branch(cmd, t, p, hw, "center")
        ELSE IF c = T_resetodo THEN reset_branch(cmd, t, p)
        ELSE unknown_branch(cmd, t, p)

\* Whether apply_cmd calls the actuator for cmd.
CallsActuator(cmd) ==
    lower(strip(cmd)) \in
        {T_forward, T_back, T_stop, T_left, T_right, T_center}

\* ------------------------------------------------------------ connections

\* A close_conn that would leave out the call of hw_safe_stop: C2 tells it
\* apart.
close_conn_without_stop(c, f, S) ==
    IF S.closed[c] THEN S
    ELSE [closed |-> [S.closed EXCEPT ![c] = TRUE],
          registered |-> S.registered \ {c},
          px |-> S.px,
          log |-> S.log]

\* A close_conn that would leave the socket in the selector's map: C11
\* tells it apart.
close_conn_keeps_registered(c, f, S) ==
    IF S.closed[c] THEN S
    ELSE [closed |-> [S.closed EXCEPT ![c] = TRUE],
          registered |-> S.registered,
          px |-> hw_safe_stop(S.px, f),
          log |-> [S.log EXCEPT ![c] = Append(@, <<"hw_safe_stop">>)]]

\* A close_conn without the test of state.closed: C16 tells it apart.
close_conn_again(c, f, S) ==
    [closed |-> [S.closed EXCEPT ![c] = TRUE],
     registered |-> S.registered \ {c},
     px |-> hw_safe_stop(S.px, f),
     log |-> [S.log EXCEPT ![c] = Append(@, <<"hw_safe_stop">>)]]

\* close_conn(state) on the part of the server it touches: the closed flag,
\* the selector's map, the actuator (hw_safe_stop going as f says) and what
\* was done on the connection.
close_conn(c, f, S) ==
    IF S.closed[c] THEN S
    ELSE [closed |-> [S.closed EXCEPT ![c] = TRUE],
          registered |-> S.registered \ {c},
          px |-> hw_safe_stop(S.px, f),
          log |-> [S.log EXCEPT ![c] = Append(@, <<"hw_safe_stop">>)]]

\* A finally block that would forget the connections: C18 tells it apart.
close_all_skipped(S, cs, fs) == S

\* The loop of the finally block of main: close_conn on every connection
\* of the selector's map.
RECURSIVE close_all(_, _, _)
close_all(S, cs, fs) ==
    IF cs = {} THEN S
    ELSE LET c == CHOOSE x \in cs : TRUE
         IN  close_all(close_conn(c, fs[c], S), cs \ {c}, fs)

\* A test that would time every connection from the one module-level
\* timestamp of the last telemetry line: C9 tells it apart.
push_due_shared(time, last) == (time - last_telem_time) * TELEM_HZ >= 1000

\* push_telem_if_due's test: now - state.last_push >= 1.0 / hz
push_due(time, last) == (time - last) * TELEM_HZ >= 1000

\* A telemetry loop that would go over the selector's map as it was before
\* the handler ran: C17 tells it apart.
after_handler_stale(rdy, reg) ==
    IF rdy # {} THEN [pc |-> "events", pushTodo |-> {}]
    ELSE IF registered # {} THEN [pc |-> "push", pushTodo |-> registered]
    ELSE [pc |-> "select", pushTodo |-> {}]

\* Where main goes on after a handler: the next ready key, else the
\* telemetry loop over the selector's map, else the next select.
after_handler(rdy, reg) ==
    IF rdy # {} THEN [pc |-> "events", pushTodo |-> {}]
    ELSE IF reg # {} THEN [pc |-> "push", pushTodo |-> reg]
    ELSE [pc |-> "select", pushTodo |-> {}]

\* An ACK whose failure would end the handling of the command like any
\* other exception of service: C12 tells it apart.
ack_fatal(cmd, t, p, ack, hw) ==
    IF ack = "raises"
    THEN [telem |-> t, px |-> p, raised |-> TRUE,
          did |-> <<<<"ack_err", cmd>>>>]
    ELSE LET r == apply_cmd(cmd, t, p, hw)
         IN  [r EXCEPT !.did = <<<<"ack", cmd>>>> \o r.did]

\* The body of the framing loop of service for a command: the ACK is
\* written (sendall going as ack says, its exception only printed), then
\* apply_cmd is called whatever became of the ACK.
ack_then_apply(cmd, t, p, ack, hw) ==
    LET r == apply_cmd(cmd, t, p, hw)
    IN  [r EXCEPT !.did = <<<<IF ack = "ok" THEN "ack" ELSE "ack_err",
                              cmd>>>> \o r.did]

\* The part of the server close_conn works on.
Server == [closed |-> closed, registered |-> registered, px |-> px, log |-> log]

\* -------------------------------------------------------------- clients

Line(tok) == tok \o <<LF>>

Scenario(a, b) == [c \in Clients |-> IF c = "A" THEN a ELSE b]

\* A client that takes no part in a run.
Absent == <<"absent">>

\* What the two clients write, one element per write.
Scenarios ==
    { Scenario(<<Line(T_forward), Line(T_stop)>>, Absent),
      Scenario(<<Line(T_forward) \o Line(T_left)>>, Absent),
      Scenario(<<Line(T_forward),
                 <<SP, "R", "e", "s", "e", "t", "O", "d", "o", CR, LF>>>>,
               Absent),
      Scenario(<<Line(T_forward), Line(T_reset_odometer)>>, Absent),
      Scenario(<<T_stop \o <<ByteC3>>, <<ByteA9, LF>>>>, Absent),
      Scenario(<<T_back \o <<CR>>, <<LF>> \o Line(T_bogus) \o <<LF>>>>,
               Absent) }

Keys == Clients \cup {"main"}

\* The _telem record when the module is loaded.
telem0 == [direction |-> "stop", speed_mps |-> 0, distance_m |-> 0,
           battery |-> BATTERY, moving |-> "stop", steer |-> "center"]

loopVars == <<pc, ready, cur, pushTodo>>
sockVars == <<backlog, net, script, rcvq>>
connVars == <<buf_in, last_push, closed, registered>>
telemVars == <<telem, last_telem_time>>

\* picarx_ble.py when the module is loaded and make_peripheral has started
\* the failsafe thread: the car stands, no control write is being handled.
NoMsg == [valid |-> FALSE, keys |-> {}, throttle |-> 0, steer |-> 0,
          mode |-> "stop"]

BleInit ==
    /\ ble_now = StartTime
    /\ drive = [throttle |-> 0, steer |-> 0, mode |-> "stop"]
    /\ last_ctrl_ts = StartTime
    /\ stop_evt = FALSE
    /\ ble_px = [motion |-> "stop", angle |-> 0]
    /\ wpc = "idle"
    /\ msg = NoMsg
    /\ w_branch = "none"
    /\ fpc = "check"
    /\ f_branch = "none"
    /\ w_expired = FALSE
    /\ w_mode0 = "stop"
    /\ w_issued = "none"
    /\ writes = 0

Init ==
    /\ now = StartTime
    /\ pc = "select"
    /\ ready = {}
    /\ cur = "none"
    /\ pushTodo = {}
    /\ lsock_registered = TRUE
    /\ registered = {}
    /\ backlog = <<>>
    /\ \E sc \in Scenarios :
         /\ script = [c \in Clients |->
                        IF sc[c] = Absent THEN <<>> ELSE sc[c]]
         /\ net = [c \in Clients |->
                     IF sc[c] = Absent THEN "absent" ELSE "idle"]
    /\ rcvq = [c \in Clients |-> <<>>]
    /\ buf_in = [c \in Clients |-> <<>>]
    /\ last_push = [c \in Clients |-> 0]
    /\ closed = [c \in Clients |-> FALSE]
    /\ telem = telem0
    /\ last_telem_time = StartTime
    /\ px = [motion |-> "stop", power |-> 0, angle |-> 0]
    /\ log = [k \in Keys |-> <<>>]
    /\ rx = [c \in Clients |-> <<>>]
    /\ last_cmd_time = StartTime
    /\ dir_hist = <<>>
    /\ faults = 0
    /\ BleInit

\* A client connects: its connection waits in the listen backlog.
Connect(c) ==
    /\ pc = "select"
    /\ UNCHANGED bvars
    /\ net[c] = "idle"
    /\ net' = [net EXCEPT ![c] = "pending"]
    /\ backlog' = Append(backlog, c)
    /\ UNCHANGED <<now, loopVars, lsock_registered, script, rcvq, connVars,
                   telemVars, px, log, rx, last_cmd_time, dir_hist, faults>>

\* The bytes of a client's next write arrive in the socket's receive queue.
Arrive(c) ==
    /\ pc = "select"
    /\ UNCHANGED bvars
    /\ net[c] \in {"pending", "est"}
    /\ ~closed[c]
    /\ script[c] # <<>>
    /\ rcvq' = [rcvq EXCEPT ![c] = @ \o Head(script[c])]
    /\ script' = [script EXCEPT ![c] = Tail(@)]
    /\ UNCHANGED <<now, loopVars, lsock_registered, backlog, net, connVars,
                   telemVars, px, log, rx, last_cmd_time, dir_hist, faults>>

\* A client closes its end: recv returns b"" once the queue is read.
PeerClose(c) ==
    /\ pc = "select"
    /\ UNCHANGED bvars
    /\ net[c] = "est"
    /\ ~closed[c]
    /\ net' = [net EXCEPT ![c] = "fin"]
    /\ script' = [script EXCEPT ![c] = <<>>]
    /\ UNCHANGED <<now, loopVars, lsock_registered, backlog, rcvq, connVars,
                   telemVars, px, log, rx, last_cmd_time, dir_hist, faults>>

\* A client's connection is reset: recv raises ConnectionResetError.
PeerReset(c) ==
    /\ pc = "select"
    /\ UNCHANGED bvars
    /\ net[c] = "est"
    /\ ~closed[c]
    /\ net' = [net EXCEPT ![c] = "rst"]
    /\ script' = [script EXCEPT ![c] = <<>>]
    /\ rcvq' = [rcvq EXCEPT ![c] = <<>>]
    /\ UNCHANGED <<now, loopVars, lsock_registered, backlog, connVars,
                   telemVars, px, log, rx, last_cmd_time, dir_hist, faults>>

\* ------------------------------------------------------------ reactor loop

\* The connections select reports readable: bytes are queued, or the peer
\* has closed or reset.
Readable ==
    {c \in registered : rcvq[c] # <<>> \/ net[c] \in {"fin", "rst"}}

\* sel.select(timeout=0.1): returns at once with the ready keys, or after
\* the timeout with none.  It may report a socket whose recv then blocks.
SelectWithin(ticks) ==
    /\ pc = "select"
    /\ UNCHANGED bvars
    /\ \E spur \in {{}} \cup {{c} : c \in registered \ Readable} :
         LET lready == IF lsock_registered /\ backlog # <<>>
                       THEN {LSOCK} ELSE {}
             r == lready \cup Readable \cup spur
             nxt == after_handler(r, registered)
         IN  /\ faults + Cardinality(spur) <= MaxFaults
             /\ faults' = faults + Cardinality(spur)
             /\ IF r = {}
                THEN /\ now + HEARTBEAT_MS
                          <= StartTime + ticks * HEARTBEAT_MS
                     /\ now' = now + HEARTBEAT_MS
                ELSE now' = now
             /\ ready' = r
             /\ pc' = nxt.pc
             /\ pushTodo' = nxt.pushTodo
    /\ UNCHANGED <<cur, lsock_registered, sockVars, connVars, telemVars,
                   px, log, rx, last_cmd_time, dir_hist>>

Select == SelectWithin(MaxTicks)

\* accept(sock): a ConnState for the pending connection, registered for
\* reading.
Accept ==
    /\ pc = "events"
    /\ UNCHANGED bvars
    /\ LSOCK \in ready
    /\ LET c == Head(backlog)
           nxt == after_handler(ready \ {LSOCK}, registered \cup {c})
       IN  /\ backlog' = Tail(backlog)
           /\ net' = [net EXCEPT ![c] = "est"]
           /\ registered' = registered \cup {c}
           /\ buf_in' = [buf_in EXCEPT ![c] = <<>>]
           /\ last_push' = [last_push EXCEPT ![c] = 0]
           /\ closed' = [closed EXCEPT ![c] = FALSE]
           /\ ready' = ready \ {LSOCK}
           /\ pc' = nxt.pc
           /\ pushTodo' = nxt.pushTodo
    /\ UNCHANGED <<now, cur, lsock_registered, script, rcvq, telemVars, px,
                   log, rx, last_cmd_time, dir_hist, faults>>

\* service(state), up to the framing loop: one recv.
ServiceRecv(c) ==
    /\ pc = "events"
    /\ UNCHANGED bvars
    /\ c \in ready \cap Clients
    /\ ready' = ready \ {c}
    /\ \/ \* bytes: decoded, CR-LF replaced, appended to buf_in
          /\ net[c] # "rst"
          /\ rcvq[c] # <<>>
          /\ LET buf == buf_in[c] \o replace_crlf(decode(rcvq[c]))
                 nxt == after_handler(ready \ {c}, registered)
             IN  /\ buf_in' = [buf_in EXCEPT ![c] = buf]
                 /\ IF find_nl(buf) # 0
                    THEN pc' = "lines" /\ cur' = c /\ pushTodo' = {}
                    ELSE pc' = nxt.pc /\ cur' = cur
                         /\ pushTodo' = nxt.pushTodo
          /\ rx' = [rx EXCEPT ![c] = @ \o rcvq[c]]
          /\ rcvq' = [rcvq EXCEPT ![c] = <<>>]
          /\ UNCHANGED <<registered, closed, px, log, faults>>
       \/ \* b"" (peer closed) or an exception of recv: close_conn
          /\ net[c] = "rst" \/ (net[c] = "fin" /\ rcvq[c] = <<>>)
          /\ \E f \in StopOutcomes :
               LET S == close_conn(c, f,
                          [Server EXCEPT !.log[c] =
                                             Append(@, <<"disconnected">>)])
                   nxt == after_handler(ready \ {c}, S.registered)
               IN  /\ faults + Cost(f) <= MaxFaults
                   /\ faults' = faults + Cost(f)
                   /\ closed' = S.closed
                   /\ registered' = S.registered
                   /\ px' = S.px
                   /\ log' = S.log
                   /\ pc' = nxt.pc
                   /\ pushTodo' = nxt.pushTodo
          /\ UNCHANGED <<cur, buf_in, rx, rcvq>>
       \/ \* BlockingIOError: nothing to read after all
          /\ net[c] = "est"
          /\ rcvq[c] = <<>>
          /\ LET nxt == after_handler(ready \ {c}, registered)
             IN  pc' = nxt.pc /\ pushTodo' = nxt.pushTodo
          /\ UNCHANGED <<cur, registered, closed, px, log, buf_in, rx, rcvq,
                         faults>>
    /\ UNCHANGED <<now, lsock_registered, backlog, net, script, last_push,
                   telemVars, last_cmd_time, dir_hist>>

\* One turn of the framing loop of service on the connection being served:
\* the first line leaves buf_in; an empty one is skipped; otherwise the ACK
\* is written (sendall going as ack says, its exception logged) and the
\* command dispatched.  An exception leaving apply_cmd ends the loop in
\* close_conn.  The loop ends when buf_in holds no line terminator.
ServiceLine ==
    /\ pc = "lines"
    /\ UNCHANGED bvars
    /\ LET c == cur
           nl == find_nl(buf_in[c])
           line == SubSeq(buf_in[c], 1, nl - 1)
           rest == SubSeq(buf_in[c], nl + 1, Len(buf_in[c]))
           cmd == strip(line)
           more == find_nl(rest) # 0
           nxt == after_handler(ready, registered)
       IN  /\ buf_in' = [buf_in EXCEPT ![c] = rest]
           /\ IF cmd = <<>>
              THEN /\ IF more
                      THEN UNCHANGED <<pc, cur, pushTodo>>
                      ELSE pc' = nxt.pc /\ cur' = "none"
                           /\ pushTodo' = nxt.pushTodo
                   /\ UNCHANGED <<telem, px, log, closed, registered,
                                  last_cmd_time, dir_hist, faults>>
              ELSE \E ack \in HwOutcomes, hw \in HwOutcomes :
                     LET r == ack_then_apply(cmd, telem, px, ack, hw)
                         lg == [log EXCEPT ![c] = @ \o r.did]
                     IN  /\ hw = "ok" \/ CallsActuator(cmd)
                         /\ telem' = r.telem
                         /\ dir_hist' =
                              IF r.telem.direction # telem.direction
                              THEN Append(dir_hist, r.telem.direction)
                              ELSE dir_hist
                         /\ last_cmd_time' =
                              IF lower(cmd) \in Recognized
                              THEN now ELSE last_cmd_time
                         /\ IF r.raised
                            THEN \E f \in StopOutcomes :
                                   LET S == close_conn(c, f,
                                              [closed |-> closed,
                                               registered |-> registered,
                                               px |-> r.px, log |-> lg])
                                       out == after_handler(ready,
                                                            S.registered)
                                   IN  /\ faults + Cost(ack) + Cost(hw)
                                            + Cost(f) <= MaxFaults
                                       /\ faults' = faults + Cost(ack)
                                                      + Cost(hw) + Cost(f)
                                       /\ closed' = S.closed
                                       /\ registered' = S.registered
                                       /\ px' = S.px
                                       /\ log' = S.log
                                       /\ pc' = out.pc
                                       /\ cur' = "none"
                                       /\ pushTodo' = out.pushTodo
                            ELSE /\ faults + Cost(ack) + Cost(hw) <= MaxFaults
                                 /\ faults' = faults + Cost(ack) + Cost(hw)
                                 /\ px' = r.px
                                 /\ log' = lg
                                 /\ UNCHANGED <<closed, registered>>
                                 /\ IF more
                                    THEN UNCHANGED <<pc, cur, pushTodo>>
                                    ELSE pc' = nxt.pc /\ cur' = "none"
                                         /\ pushTodo' = nxt.pushTodo
    /\ UNCHANGED <<now, ready, lsock_registered, sockVars, last_push,
                   last_telem_time, rx>>

\* push_telem_if_due(state, hz=3.0) on one connection of the telemetry loop.
PushTelem(c) ==
    /\ pc = "push"
    /\ UNCHANGED bvars
    /\ c \in pushTodo
    /\ pushTodo' = pushTodo \ {c}
    /\ pc' = IF pushTodo \ {c} = {} THEN "select" ELSE "push"
    /\ IF push_due(now, last_push[c])
       THEN LET tk == telemetry_tick(telem, last_telem_time, now)
            IN  /\ telem' = tk.telem
                /\ last_telem_time' = tk.last_telem_time
                /\ \/ \* sendall returns
                      /\ last_push' = [last_push EXCEPT ![c] = now]
                      /\ log' = [log EXCEPT ![c] =
                                   Append(@, <<"telem", tk.telem>>)]
                      /\ UNCHANGED <<closed, registered, px, faults>>
                   \/ \* sendall raises
                      \E f \in StopOutcomes :
                        LET S == close_conn(c, f,
                                   [Server EXCEPT !.log[c] =
                                                Append(@, <<"send_err">>)])
                        IN  /\ faults + 1 + Cost(f) <= MaxFaults
                            /\ faults' = faults + 1 + Cost(f)
                            /\ closed' = S.closed
                            /\ registered' = S.registered
                            /\ px' = S.px
                            /\ log' = S.log
                            /\ UNCHANGED last_push
       ELSE UNCHANGED <<telemVars, last_push, log, closed, registered, px,
                        faults>>
    /\ UNCHANGED <<now, ready, cur, lsock_registered, sockVars, buf_in, rx,
                   last_cmd_time, dir_hist>>

\* The finally block of main: close_conn on every registered connection,
\* the listening socket unregistered and closed, one last hw_safe_stop.
Finally ==
    \E fs \in [Keys -> StopOutcomes] :
      LET calls == registered \cup {"main"}
          cost == Cardinality({k \in calls : fs[k] # "ok"})
          S == close_all(Server, registered, fs)
      IN  /\ \A k \in Keys \ calls : fs[k] = "ok"
          /\ faults + cost <= MaxFaults
          /\ faults' = faults + cost
          /\ closed' = S.closed
          /\ registered' = S.registered
          /\ lsock_registered' = FALSE
          /\ px' = hw_safe_stop(S.px, fs["main"])
          /\ log' = [S.log EXCEPT !["main"] = Append(@, <<"hw_safe_stop">>)]
          /\ pc' = "done"
          /\ ready' = {}
          /\ cur' = "none"
          /\ pushTodo' = {}
          /\ UNCHANGED <<now, sockVars, buf_in, last_push, telemVars, rx,
                         last_cmd_time, dir_hist, bvars>>

\* A termination signal (KeyboardInterrupt) while main waits in select.
Interrupt ==
    /\ pc = "select"
    /\ Finally

\* sock.accept() raises: nothing in main catches it, the loop ends.
AcceptRaises ==
    /\ pc = "events"
    /\ LSOCK \in ready
    /\ faults < MaxFaults
    /\ Finally

Next ==
    \/ \E c \in Clients : Connect(c)
    \/ \E c \in Clients : Arrive(c)
    \/ \E c \in Clients : PeerClose(c)
    \/ \E c \in Clients : PeerReset(c)
    \/ Select
    \/ Accept
    \/ AcceptRaises
    \/ \E c \in Clients : ServiceRecv(c)
    \/ ServiceLine
    \/ \E c \in Clients : PushTelem(c)
    \/ Interrupt

Spec == Init /\ [][Next]_vars

\* ----------------------------------------------------- two connections

\* Two clients are connected: A was accepted at StartTime and got its first
\* telemetry line then, B was accepted two heartbeats later and got its
\* first line in the same loop iteration; main is back in select.

InitDuo ==
    /\ now = StartTime + 2 * HEARTBEAT_MS
    /\ pc = "select"
    /\ ready = {}
    /\ cur = "none"
    /\ pushTodo = {}
    /\ lsock_registered = TRUE
    /\ registered = Clients
    /\ backlog = <<>>
    /\ script = Scenario(<<Line(T_forward), Line(T_stop)>>, <<Line(T_left)>>)
    /\ net = [c \in Clients |-> "est"]
    /\ rcvq = [c \in Clients |-> <<>>]
    /\ buf_in = [c \in Clients |-> <<>>]
    /\ last_push = Scenario(StartTime, StartTime + 2 * HEARTBEAT_MS)
    /\ closed = [c \in Clients |-> FALSE]
    /\ telem = telem0
    /\ last_telem_time = StartTime + 2 * HEARTBEAT_MS
    /\ px = [motion |-> "stop", power |-> 0, angle |-> 0]
    /\ log = [k \in Keys |->
                IF k \in Clients THEN <<<<"telem", telem0>>>> ELSE <<>>]
    /\ rx = [c \in Clients |-> <<>>]
    /\ last_cmd_time = StartTime
    /\ dir_hist = <<>>
    /\ faults = 0
    /\ BleInit

SelectDuo == SelectWithin(DuoTicks)

NextDuo ==
    \/ \E c \in Clients : Arrive(c)
    \/ \E c \in Clients : PeerClose(c)
    \/ \E c \in Clients : PeerReset(c)
    \/ SelectDuo
    \/ \E c \in Clients : ServiceRecv(c)
    \/ ServiceLine
    \/ \E c \in Clients : PushTelem(c)
    \/ Interrupt

SpecDuo == InitDuo /\ [][NextDuo]_vars

\* ------------------------------------------------------------ one second

\* One client, which asks for forward and then falls silent.
InitWatch ==
    /\ now = StartTime
    /\ pc = "select"
    /\ ready = {}
    /\ cur = "none"
    /\ pushTodo = {}
    /\ lsock_registered = TRUE
    /\ registered = {}
    /\ backlog = <<>>
    /\ script = Scenario(<<Line(T_forward)>>, <<>>)
    /\ net = Scenario("idle", "absent")
    /\ rcvq = [c \in Clients |-> <<>>]
    /\ buf_in = [c \in Clients |-> <<>>]
    /\ last_push = [c \in Clients |-> 0]
    /\ closed = [c \in Clients |-> FALSE]
    /\ telem = telem0
    /\ last_telem_time = StartTime
    /\ px = [motion |-> "stop", power |-> 0, angle |-> 0]
    /\ log = [k \in Keys |-> <<>>]
    /\ rx = [c \in Clients |-> <<>>]
    /\ last_cmd_time = StartTime
    /\ dir_hist = <<>>
    /\ faults = 0
    /\ BleInit

SelectWatch == SelectWithin(WatchTicks)

NextWatch ==
    \/ \E c \in Clients : Connect(c)
    \/ \E c \in Clients : Arrive(c)
    \/ \E c \in Clients : PeerClose(c)
    \/ \E c \in Clients : PeerReset(c)
    \/ SelectWatch
    \/ Accept
    \/ AcceptRaises
    \/ \E c \in Clients : ServiceRecv(c)
    \/ ServiceLine
    \/ \E c \in Clients : PushTelem(c)
    \/ Interrupt

SpecWatch == InitWatch /\ [][NextWatch]_vars

\* ============================================================ BLE server

\* picarx_ble.py: on_ctrl_write runs on the thread of the BLE main loop,
\* failsafe_loop on a thread of its own; both read and write drive,
\* _last_ctrl_ts and the car with no lock.  A step of a thread is one
\* statement of the code (apply_drive: the test of drive["mode"], then the
\* calls of the car).  The car is attached and its calls return.  throttle
\* and steer take whole values.

\* The time one step of the clock stands for.
BleTickMs == FAILSAFE_MS \div 2

\* max(-1.0, min(1.0, x))
clamp(x) == IF x > 1 THEN 1 ELSE IF x < 0 - 1 THEN 0 - 1 ELSE x

\* The motion apply_drive asks of the car for a throttle.
MotionOf(thr) ==
    IF thr > 0 THEN "forward" ELSE IF thr < 0 THEN "backward" ELSE "stop"

\* A test of the failsafe window that would take FAILSAFE_SECONDS for
\* milliseconds: C20 tells it apart.
window_expired_late(time, ts) == time - ts > FAILSAFE_MS * 1000

\* time.time() - _last_ctrl_ts > FAILSAFE_SECONDS
window_expired(time, ts) == time - ts > FAILSAFE_MS

\* The first statements of apply_drive: which branch drive["mode"] selects.
apply_drive_branch(d) == IF d.mode = "stop" THEN "stop" ELSE "drive"

\* The rest of apply_drive on the branch taken: px.stop(), or the servo
\* angle and the motion from drive as it is now.
apply_drive_call(p, d, branch) ==
    IF branch = "stop" THEN [p EXCEPT !.motion = "stop"]
    ELSE [motion |-> MotionOf(clamp(d.throttle)),
          angle |-> SERVO_MAX * clamp(d.steer)]

\* The control writes a client makes: drive ahead, a throttle alone, a
\* stop, and bytes that are no JSON.
MsgDrive == [valid |-> TRUE, keys |-> {"throttle", "mode"}, throttle |-> 1,
             steer |-> 0, mode |-> "drive"]
MsgThrottle == [valid |-> TRUE, keys |-> {"throttle"}, throttle |-> 1,
                steer |-> 0, mode |-> "stop"]
MsgStop == [valid |-> TRUE, keys |-> {"mode"}, throttle |-> 0, steer |-> 0,
            mode |-> "stop"]
MsgBad == [valid |-> FALSE, keys |-> {}, throttle |-> 0, steer |-> 0,
           mode |-> "stop"]
Msgs == {MsgDrive, MsgThrottle, MsgStop, MsgBad}

\* Time passes.
BleTick ==
    /\ ble_now + BleTickMs <= StartTime + MaxBleTicks * BleTickMs
    /\ ble_now' = ble_now + BleTickMs
    /\ UNCHANGED <<drive, last_ctrl_ts, stop_evt, ble_px, wpc, msg,
                   w_branch, fpc, f_branch, w_expired, w_mode0, w_issued,
                   writes>>
    /\ UNCHANGED rvars

\* on_ctrl_write is called with a control write: json.loads either gives
\* the message or raises (the except clause then logs and returns).
CtrlWrite(m) ==
    /\ wpc = "idle"
    /\ writes < MaxWrites
    /\ writes' = writes + 1
    /\ msg' = m
    /\ wpc' = IF m.valid THEN "throttle" ELSE "ret"
    /\ w_expired' = window_expired(ble_now, last_ctrl_ts)
    /\ w_mode0' = drive.mode
    /\ w_issued' = "none"
    /\ UNCHANGED <<ble_now, drive, last_ctrl_ts, stop_evt, ble_px, w_branch,
                   fpc, f_branch>>
    /\ UNCHANGED rvars

\* One turn of the loop over ("throttle", "steer", "mode").
CtrlKey(k, next) ==
    /\ wpc = k
    /\ drive' = IF k \in msg.keys THEN [drive EXCEPT ![k] = msg[k]] ELSE drive
    /\ wpc' = next
    /\ UNCHANGED <<ble_now, last_ctrl_ts, stop_evt, ble_px, msg, w_branch,
                   fpc, f_branch, w_expired, w_mode0, w_issued, writes>>
    /\ UNCHANGED rvars

CtrlKeys ==
    \/ CtrlKey("throttle", "steer")
    \/ CtrlKey("steer", "mode")
    \/ CtrlKey("mode", "ts")

\* _last_ctrl_ts = time.time()
CtrlStamp ==
    /\ wpc = "ts"
    /\ last_ctrl_ts' = ble_now
    /\ wpc' = "apply"
    /\ UNCHANGED <<ble_now, drive, stop_evt, ble_px, msg, w_branch, fpc,
                   f_branch, w_expired, w_mode0, w_issued, writes>>
    /\ UNCHANGED rvars

\* apply_drive() of on_ctrl_write: the test of drive["mode"].
CtrlApplyTest ==
    /\ wpc = "apply"
    /\ w_branch' = apply_drive_branch(drive)
    /\ wpc' = "call"
    /\ UNCHANGED <<ble_now, drive, last_ctrl_ts, stop_evt, ble_px, msg, fpc,
                   f_branch, w_expired, w_mode0, w_issued, writes>>
    /\ UNCHANGED rvars

\* apply_drive() of on_ctrl_write: the calls of the car.
CtrlApplyCall ==
    /\ wpc = "call"
    /\ ble_px' = apply_drive_call(ble_px, drive, w_branch)
    /\ w_issued' = apply_drive_call(ble_px, drive, w_branch).motion
    /\ wpc' = "ret"
    /\ UNCHANGED <<ble_now, drive, last_ctrl_ts, stop_evt, msg, w_branch,
                   fpc, f_branch, w_expired, w_mode0, writes>>
    /\ UNCHANGED rvars

\* on_ctrl_write appends to ctrl_log and returns.
CtrlReturn ==
    /\ wpc = "ret"
    /\ wpc' = "idle"
    /\ UNCHANGED <<ble_now, drive, last_ctrl_ts, stop_evt, ble_px, msg,
                   w_branch, fpc, f_branch, w_expired, w_mode0, w_issued,
                   writes>>
    /\ UNCHANGED rvars

\* failsafe_loop: the test of stop_evt and of the window.
FailsafeCheck ==
    /\ fpc = "check"
    /\ fpc' = IF stop_evt THEN "exit"
              ELSE IF window_expired(ble_now, last_ctrl_ts) THEN "set"
              ELSE "sleep"
    /\ UNCHANGED <<ble_now, drive, last_ctrl_ts, stop_evt, ble_px, wpc, msg,
                   w_branch, f_branch, w_expired, w_mode0, w_issued, writes>>
    /\ UNCHANGED rvars

\* drive["mode"] = "stop"
FailsafeSet ==
    /\ fpc = "set"
    /\ drive' = [drive EXCEPT !.mode = "stop"]
    /\ fpc' = "apply"
    /\ UNCHANGED <<ble_now, last_ctrl_ts, stop_evt, ble_px, wpc, msg,
                   w_branch, f_branch, w_expired, w_mode0, w_issued, writes>>
    /\ UNCHANGED rvars

\* apply_drive() of failsafe_loop: the test of drive["mode"].
FailsafeApplyTest ==
    /\ fpc = "apply"
    /\ f_branch' = apply_drive_branch(drive)
    /\ fpc' = "call"
    /\ UNCHANGED <<ble_now, drive, last_ctrl_ts, stop_evt, ble_px, wpc, msg,
                   w_branch, w_expired, w_mode0, w_issued, writes>>
    /\ UNCHANGED rvars

\* apply_drive() of failsafe_loop: the calls of the car.
FailsafeApplyCall ==
    /\ fpc = "call"
    /\ ble_px' = apply_drive_call(ble_px, drive, f_branch)
    /\ fpc' = "sleep"
    /\ UNCHANGED <<ble_now, drive, last_ctrl_ts, stop_evt, wpc, msg,
                   w_branch, f_branch, w_expired, w_mode0, w_issued, writes>>
    /\ UNCHANGED rvars

\* time.sleep(0.05) returns.
FailsafeSleep ==
    /\ fpc = "sleep"
    /\ fpc' = "check"
    /\ UNCHANGED <<ble_now, drive, last_ctrl_ts, stop_evt, ble_px, wpc, msg,
                   w_branch, f_branch, w_expired, w_mode0, w_issued, writes>>
    /\ UNCHANGED rvars

\* The thread of failsafe_loop.
FailsafeThread ==
    \/ FailsafeCheck
    \/ FailsafeSet
    \/ FailsafeApplyTest
    \/ FailsafeApplyCall
    \/ FailsafeSleep

\* The finally block of main: stop_evt.set()
BleShutdown ==
    /\ ~stop_evt
    /\ stop_evt' = TRUE
    /\ UNCHANGED <<ble_now, drive, last_ctrl_ts, ble_px, wpc, msg, w_branch,
                   fpc, f_branch, w_expired, w_mode0, w_issued, writes>>
    /\ UNCHANGED rvars

\* The BLE server runs; the Wi-Fi server is loaded and takes no step.
InitBle == InitWatch

NextBle ==
    \/ BleTick
    \/ \E m \in Msgs : CtrlWrite(m)
    \/ CtrlKeys
    \/ CtrlStamp
    \/ CtrlApplyTest
    \/ CtrlApplyCall
    \/ CtrlReturn
    \/ FailsafeCheck
    \/ FailsafeSet
    \/ FailsafeApplyTest
    \/ FailsafeApplyCall
    \/ FailsafeSleep
    \/ BleShutdown

SpecBle == InitBle /\ [][NextBle]_vars

\* The same with the failsafe thread scheduled again and again.
SpecBleLive == SpecBle /\ WF_vars(FailsafeThread)

\* ================================================================= claims

\* What was done on connection c, of the kinds ks, in order.
Kinds(c, ks) == SelectSeq(log[c], LAMBDA e : e[1] \in ks)

\* The commands handed to apply_cmd from connection c, in order.
Dispatched(c) ==
    LET K == Kinds(c, {"cmd"}) IN [i \in 1..Len(K) |-> K[i][2]]

\* The ACK writes and actuator calls on connection c, in order; an ACK
\* write counts whether or not sendall went through.
Acts(c) ==
    LET K == Kinds(c, {"ack", "ack_err", "set_motion", "set_steer"})
    IN  [i \in 1..Len(K) |->
           IF K[i][1] = "ack_err" THEN <<"ack", K[i][2]>> ELSE K[i]]

\* The ACK writes on connection c, in order.
Acks(c) ==
    LET K == Kinds(c, {"ack", "ack_err"}) IN [i \in 1..Len(K) |-> K[i][2]]

\* The framing loop of service run to its end on a buffer: the commands it
\* hands on.
RECURSIVE frames(_)
frames(buf) ==
    IF find_nl(buf) = 0 THEN <<>>
    ELSE LET nl == find_nl(buf)
             cmd == strip(SubSeq(buf, 1, nl - 1))
         IN  (IF cmd = <<>> THEN <<>> ELSE <<cmd>>)
                 \o frames(SubSeq(buf, nl + 1, Len(buf)))

\* What service hands on when bytes b arrive in one read on a fresh
\* connection.
single_read(b) == frames(replace_crlf(decode(b)))

\* service is inside its framing loop on connection c.
Serving(c) == pc = "lines" /\ cur = c

\* This step hands a command to apply_cmd.
Dispatches == pc = "lines" /\ Len(log'[cur]) > Len(log[cur])

\* The command this step hands to apply_cmd (the entry after the ACK).
StepCmd == log'[cur][Len(log[cur]) + 2][2]

\* What this step did on the connection being served.
StepDid == SubSeq(log'[cur], Len(log[cur]) + 1, Len(log'[cur]))

\* The actuator call of this step raised.
StepRaised == \E i \in 1..Len(StepDid) : StepDid[i][1] = "raise"

RecognizedCmd(e) == e[1] = "cmd" /\ lower(e[2]) \in Recognized

\* ---- C1
\* C1: whenever the reactor is about to wait in select and no recognized
\* command has been dispatched for longer than the failsafe threshold plus
\* one heartbeat, the telemetry direction is "stop" and the actuator is
\* stopped.
C1_FailsafeStops ==
    (pc = "select" /\ now - last_cmd_time > FAILSAFE_MS + HEARTBEAT_MS)
        => (telem.direction = "stop" /\ px.motion = "stop")

\* ---- C2
\* C2: on every torn-down connection, whatever tore it down, a call of
\* hw_safe_stop comes after the last recognized command dispatched from it.
C2_SafeStopAfterTeardown ==
    \A c \in Clients :
        closed[c] =>
            \E i \in 1..Len(log[c]) :
                /\ log[c][i][1] = "hw_safe_stop"
                /\ \A j \in (i + 1)..Len(log[c]) : ~RecognizedCmd(log[c][j])

\* A's connection is torn down after it asked for forward, the telemetry
\* still says forward, B is still being served.
C2_Witness ==
    /\ closed["A"]
    /\ \E i \in 1..Len(log["A"]) : RecognizedCmd(log["A"][i])
    /\ telem.direction = "forward"
    /\ "B" \in registered
    /\ ~closed["B"]

\* ---- C3
\* C3: once service has returned, the commands dispatched from a connection
\* are the commands a single read of all the bytes read from it so far
\* would dispatch, however the bytes were split over the reads (no actuator
\* call having raised on it).
C3_ReadBoundaryIndependent ==
    \A c \in Clients :
        (~Serving(c) /\ Kinds(c, {"raise"}) = <<>>)
            => Dispatched(c) = single_read(rx[c])

\* ---- C4
\* C4: a step that dispatches a token outside the recognized set calls no
\* actuator and changes no field of the telemetry; besides the ACK it only
\* prints the [CMD] and [WARN] lines.
C4_UnknownTokenNoEffect ==
    [][(Dispatches /\ lower(StepCmd) \notin Recognized)
         => /\ telem' = telem
            /\ px' = px
            /\ Len(StepDid) = 3
            /\ StepDid[2] = <<"cmd", StepCmd>>
            /\ StepDid[3] = <<"warn", lower(StepCmd)>>]_vars

\* An unknown token was dispatched while the car drives forward.
C4_Witness ==
    /\ \E i \in 1..Len(log["A"]) : log["A"][i][1] = "warn"
    /\ telem.direction = "forward"
    /\ px.motion = "forward"

\* ---- C5
\* C5: on every connection each dispatch is preceded by exactly one ACK
\* write for the same non-empty command text and each ACK write is followed
\* by that dispatch, and once service has returned no complete non-empty
\* line is left in the buffer without its ACK and dispatch.
C5_EveryLineAcked ==
    \A c \in Clients :
        LET K == Kinds(c, {"ack", "ack_err", "cmd"})
        IN  /\ Len(K) % 2 = 0
            /\ \A i \in 1..Len(K) :
                 IF i % 2 = 1
                 THEN K[i][1] \in {"ack", "ack_err"} /\ K[i][2] # <<>>
                 ELSE K[i][1] = "cmd" /\ K[i][2] = K[i - 1][2]
            /\ ~Serving(c) => frames(buf_in[c]) = <<>>

\* ---- C6
\* C6: when "forward\nleft\n" has been read from A in one read and service
\* has returned, what was done on A is ACK:forward, motion forward,
\* ACK:left, steering left in this order, and the telemetry says direction
\* forward and steering left.
C6_OneWriteInOrder ==
    (rx["A"] = Line(T_forward) \o Line(T_left) /\ ~Serving("A"))
        => /\ Acts("A") = << <<"ack", T_forward>>, <<"set_motion", "forward">>,
                             <<"ack", T_left>>, <<"set_steer", "left">> >>
           /\ Dispatched("A") = <<T_forward, T_left>>
           /\ telem.direction = "forward"
           /\ telem.steer = "left"

\* ---- C7
\* C7 as the specification words it: a step that dispatches reset-odometer
\* sets the distance to 0, leaves direction, speed and steering status as
\* they were and calls no actuator.
C7_ResetOdometerZeroes ==
    [][(Dispatches /\ lower(StepCmd) = T_reset_odometer)
         => /\ telem'.distance_m = 0
            /\ telem'.direction = telem.direction
            /\ telem'.speed_mps = telem.speed_mps
            /\ telem'.moving = telem.moving
            /\ telem'.steer = telem.steer
            /\ px' = px]_vars

\* C7: a step that dispatches resetodo (in any letter case, with
\* surrounding whitespace) sets the distance to 0, leaves direction, speed,
\* moving and steering status as they were and calls no actuator.
C7_ResetodoZeroes ==
    [][(Dispatches /\ lower(StepCmd) = T_resetodo)
         => /\ telem'.distance_m = 0
            /\ telem'.direction = telem.direction
            /\ telem'.speed_mps = telem.speed_mps
            /\ telem'.moving = telem.moving
            /\ telem'.steer = telem.steer
            /\ px' = px
            /\ Len(StepDid) = 2]_vars

\* resetodo was dispatched after a telemetry line had shown a distance
\* above 0, and the car is still driving forward at its nominal speed.
C7_Witness ==
    /\ \E i, j \in 1..Len(log["A"]) :
         /\ i < j
         /\ log["A"][i][1] = "telem"
         /\ log["A"][i][2].distance_m > 0
         /\ log["A"][j][1] = "cmd"
         /\ lower(log["A"][j][2]) = T_resetodo
    /\ telem.distance_m = 0
    /\ telem.direction = "forward"
    /\ telem.speed_mps = NOMINAL_SPEED

\* ---- C8
\* C8: with B's steering command interleaved in any order, once forward and
\* stop have been read from A and service has returned, the distinct
\* telemetry directions were forward then stop and A has an ACK for each of
\* the two; the steering status is none of A's doing.
C8_ForwardStopRoundTrip ==
    (rx["A"] = Line(T_forward) \o Line(T_stop) /\ ~Serving("A"))
        => /\ dir_hist = <<"forward", "stop">>
           /\ Acks("A") = <<T_forward, T_stop>>
           /\ Kinds("A", {"set_steer"}) = <<>>

\* ---- C9
\* C9: a step of push_telem_if_due on a connection writes a telemetry line
\* (calls sendall) exactly when at least 1/hz has passed since that
\* connection's own last successful push; the connection's last_push moves
\* only in its own successful push, to the time of that push, and no step
\* taken for another connection writes telemetry on it.
C9_PushCadenceIndependent ==
    [][\A c \in Clients :
         LET own == pc = "push" /\ c \in pushTodo /\ c \notin pushTodo'
             due == (now - last_push[c]) * TELEM_HZ >= 1000
             wrote == /\ Len(log'[c]) > Len(log[c])
                      /\ log'[c][Len(log[c]) + 1][1] \in {"telem", "send_err"}
             sent == /\ Len(log'[c]) > Len(log[c])
                     /\ log'[c][Len(log[c]) + 1][1] = "telem"
         IN  /\ own => (wrote <=> due)
             /\ ~own => ~wrote
             /\ last_push'[c] = IF own /\ sent THEN now ELSE last_push[c]]_vars

\* Both connections got telemetry lines of their own, at different times,
\* after A's command was dispatched and B's connection saw none.
C9_Witness ==
    /\ last_push["A"] = StartTime + 4 * HEARTBEAT_MS
    /\ last_push["B"] = StartTime + 6 * HEARTBEAT_MS
    /\ Dispatched("A") # <<>>
    /\ Dispatched("B") = <<>>

\* ---- C10
\* C10: in a step whose actuator call raises, the telemetry is still
\* updated as the command asks, the connection is not torn down, and
\* service goes on with the complete lines left in the buffer.
C10_ActuatorFailureIsolated ==
    [][(Dispatches /\ StepRaised)
         => /\ telem' = apply_cmd(StepCmd, telem, px, "ok").telem
            /\ closed'[cur] = closed[cur]
            /\ cur \in registered'
            /\ frames(buf_in'[cur]) # <<>> => pc' = "lines"]_vars

\* What this step did on connection c.
NewOn(c) == SubSeq(log'[c], Len(log[c]) + 1, Len(log'[c]))

\* An entry of kind k is among the entries es.
Has(es, k) == \E i \in 1..Len(es) : es[i][1] = k

\* ---- C11
\* C11 as the specification words it: a step in which the write of an ACK
\* or of a telemetry line fails tears the connection down (unregistered,
\* closed, hw_safe_stop called).
C11_WriteFailureFatal ==
    [][\A c \in Clients :
         (Has(NewOn(c), "send_err") \/ Has(NewOn(c), "ack_err"))
             => /\ closed'[c]
                /\ c \notin registered'
                /\ Has(NewOn(c), "hw_safe_stop")]_vars

\* C11: a step in which the write of a telemetry line fails tears the
\* connection down (unregistered, closed, hw_safe_stop called and nothing
\* else done on it); a step in which only the write of an ACK fails leaves
\* the connection open and registered and calls no hw_safe_stop.
C11_TelemetryWriteFailureFatal ==
    [][\A c \in Clients :
         /\ Has(NewOn(c), "send_err")
              => /\ closed'[c]
                 /\ c \notin registered'
                 /\ NewOn(c) = << <<"send_err">>, <<"hw_safe_stop">> >>
         /\ (Has(NewOn(c), "ack_err") /\ ~Has(NewOn(c), "raise"))
              => /\ ~closed'[c]
                 /\ c \in registered'
                 /\ ~Has(NewOn(c), "hw_safe_stop")]_vars

\* The write of a telemetry line failed on A's connection while the car
\* was driving forward: the connection is closed and out of the selector's
\* map, and the motors are stopped.
C11_Witness ==
    /\ Has(log["A"], "send_err")
    /\ closed["A"]
    /\ "A" \notin registered
    /\ telem.direction = "forward"
    /\ px.motion = "stop"
    /\ pc # "done"

\* ---- C12
\* C12: a step in which the write of the ACK fails still hands the command
\* to apply_cmd: the [CMD] line follows the failed ACK, telemetry and
\* actuator come out as apply_cmd leaves them, and unless the actuator call
\* raises, service stays in its framing loop on the same connection while
\* a complete line is left in the buffer.
C12_AckFailureKeepsDispatch ==
    [][(pc = "lines" /\ Has(NewOn(cur), "ack_err"))
         => LET did == NewOn(cur)
                cmd == did[1][2]
            IN  /\ Len(did) >= 2
                /\ did[2] = <<"cmd", cmd>>
                /\ \E hw \in HwOutcomes :
                     LET r == apply_cmd(cmd, telem, px, hw)
                     IN  /\ telem' = r.telem
                         /\ r.raised <=> Has(did, "raise")
                         /\ ~r.raised
                              => /\ px' = r.px
                                 /\ did = <<did[1]>> \o r.did
                                 /\ ~closed'[cur]
                                 /\ find_nl(buf_in'[cur]) # 0
                                      => pc' = "lines" /\ cur' = cur]_vars

\* The ACK of forward could not be written, and the car drives forward with
\* the telemetry saying so, on a connection that is still open.
C12_Witness ==
    /\ Has(log["A"], "ack_err")
    /\ Has(log["A"], "set_motion")
    /\ telem.direction = "forward"
    /\ px.motion = "forward"
    /\ ~closed["A"]

\* ---- C13
\* C13: no step main takes while it handles a ready key or pushes
\* telemetry ends the reactor loop or unregisters the listening socket,
\* and such a step closes at most one connection.
C13_ExceptionContained ==
    [][(pc \in {"events", "lines", "push"})
         => /\ pc' # "done"
            /\ lsock_registered' = lsock_registered
            /\ Cardinality({c \in Clients : closed'[c] # closed[c]}) <= 1]_vars

\* ---- C14
\* The servo angle set_steer gives a steering status.
SteerAngle(s) ==
    IF s = "left" THEN 0 - DIR_MAX_ANGLE
    ELSE IF s = "right" THEN DIR_MAX_ANGLE
    ELSE 0

\* The direction or steering status a token of apply_cmd stands for.
TokenName(c) ==
    IF c = T_forward THEN "forward"
    ELSE IF c = T_back THEN "back"
    ELSE IF c = T_stop THEN "stop"
    ELSE IF c = T_left THEN "left"
    ELSE IF c = T_right THEN "right"
    ELSE "center"

\* C14: a step that dispatches a command, its token taken trimmed and in
\* lower case: forward, back and stop call set_motion with that direction
\* and set the telemetry direction to it, with the nominal speed for
\* forward and back and 0 for stop; left, right and center call set_steer
\* and set the steering status to it; reset-odometer zeroes the distance;
\* every other token changes neither actuator nor telemetry.
C14_TokenEffects ==
    [][Dispatches
         => LET c == lower(StepCmd)
            IN  /\ c \in {T_forward, T_back, T_stop}
                  => /\ Has(StepDid, "set_motion")
                     /\ px'.motion = TokenName(c)
                     /\ telem'.direction = TokenName(c)
                     /\ telem'.moving = TokenName(c)
                     /\ telem'.speed_mps =
                          IF c = T_stop THEN 0 ELSE NOMINAL_SPEED
                     /\ telem'.steer = telem.steer
                     /\ telem'.distance_m = telem.distance_m
                /\ c \in {T_left, T_right, T_center}
                  => /\ Has(StepDid, "set_steer")
                     /\ px'.angle = SteerAngle(TokenName(c))
                     /\ telem' = [telem EXCEPT !.steer = TokenName(c)]
                /\ c = T_reset_odometer
                  => /\ px' = px
                     /\ telem' = [telem EXCEPT !.distance_m = 0]
                /\ c \notin {T_forward, T_back, T_stop, T_left, T_right,
                             T_center, T_reset_odometer}
                  => px' = px /\ telem' = telem]_vars

\* ---- C15
\* C15: in every reachable state the telemetry direction is the motion of
\* the actuator, the telemetry speed is 0 exactly when the actuator is
\* stopped, and the servo angle is the one of the telemetry steering
\* status.
C15_Lockstep ==
    /\ telem.direction = px.motion
    /\ telem.speed_mps = 0 <=> px.motion = "stop"
    /\ px.angle = SteerAngle(telem.steer)

\* ---- C16
\* C16: in every reachable state, close_conn on a connection that is
\* already closed changes nothing however its hw_safe_stop would go, and
\* two calls of close_conn on any connection leave what one call leaves.
C16_CloseIdempotent ==
    \A c \in Clients : \A f, g \in StopOutcomes :
        /\ closed[c] => close_conn(c, f, Server) = Server
        /\ close_conn(c, g, close_conn(c, f, Server))
               = close_conn(c, f, Server)

\* A's connection is closed and the car still drives forward (set_motion
\* raised inside the hw_safe_stop of the teardown): a second safe stop
\* would be seen on the motors.
C16_Witness ==
    /\ closed["A"]
    /\ Has(log["A"], "hw_safe_stop")
    /\ px.motion = "forward"
    /\ hw_safe_stop(px, "ok") # px
    /\ pc # "done"

\* ---- C17
\* C17: a closed connection stays closed and out of the selector's map, is
\* neither among the ready keys nor in the telemetry loop nor the one
\* whose lines are being framed, and no step does anything on it: nothing
\* is read, framed, dispatched, acknowledged or pushed, and its buffer and
\* last_push stay as they are.
C17_ClosedIsHalted ==
    [][\A c \in Clients :
         /\ closed'[c]
              => /\ c \notin registered'
                 /\ c \notin ready'
                 /\ c \notin pushTodo'
                 /\ cur' # c
         /\ closed[c]
              => /\ closed'[c]
                 /\ log'[c] = log[c]
                 /\ buf_in'[c] = buf_in[c]
                 /\ rx'[c] = rx[c]
                 /\ last_push'[c] = last_push[c]]_vars

\* A's connection was closed with a complete line left in its buffer, and
\* main has gone through at least two more heartbeats since.
C17_Witness ==
    /\ closed["A"]
    /\ frames(buf_in["A"]) # <<>>
    /\ last_cmd_time <= StartTime + HEARTBEAT_MS
    /\ now >= StartTime + 3 * HEARTBEAT_MS
    /\ pc = "select"

C19_LateDriveWriteApplied ==
    (/\ wpc = "ret"
     /\ msg.valid
     /\ {"mode", "throttle"} \subseteq msg.keys
     /\ msg.mode = "drive"
     /\ w_expired)
        => /\ drive.mode = "drive"
           /\ w_issued = MotionOf(clamp(msg.throttle))

\* ---- C20
\* C20: while the server is not stopped, a state in which more than
\* FAILSAFE_SECONDS have passed since _last_ctrl_ts leads to one in which
\* drive["mode"] is "stop" and the car is stopped, or in which a control
\* write has renewed _last_ctrl_ts or the server is stopped; drive["mode"]
\* leaves "stop" only in the step of on_ctrl_write that stores a mode other
\* than "stop" carried by the write; and a write that carries no mode and
\* arrived while the mode was "stop" gives the car a stop.
C20_FailsafeForcesStop ==
    /\ (ble_now - last_ctrl_ts > FAILSAFE_MS /\ ~stop_evt)
         ~> \/ drive.mode = "stop" /\ ble_px.motion = "stop"
            \/ ble_now - last_ctrl_ts <= FAILSAFE_MS
            \/ stop_evt
    /\ [][(drive.mode = "stop" /\ drive'.mode # "stop")
            => /\ wpc = "mode"
               /\ "mode" \in msg.keys
               /\ msg.mode # "stop"
               /\ drive'.mode = msg.mode]_vars
    /\ [][(wpc = "call" /\ wpc' = "ret" /\ "mode" \notin msg.keys
             /\ w_mode0 = "stop")
            => ble_px'.motion = "stop"]_vars

\* The car was driving forward on a write more than FAILSAFE_SECONDS old,
\* and the failsafe thread has set the mode to "stop" and stopped the car;
\* a later write that carried a throttle alone has been handled.
C20_Witness ==
    /\ ble_now - last_ctrl_ts <= FAILSAFE_MS
    /\ writes = 2
    /\ wpc = "ret"
    /\ msg = MsgThrottle
    /\ w_mode0 = "stop"
    /\ w_expired
    /\ drive.throttle = 1
    /\ drive.mode = "stop"
    /\ ble_px.motion = "stop"
    /\ ~stop_evt

====
